---- MODULE Spec2Model ----
(***************************************************************************)
(* A model of the numeric core of rsdtypes: the UBig representation and    *)
(* its Buffer bridge (src/src/ubig.rs), the chunked schoolbook multiply    *)
(* (src/src/mul/simple.rs) and the parser entry points                     *)
(* (src/src/ibig/parse/mod.rs).                                            *)
(*                                                                         *)
(* Three specifications share the module: SpecUBig, SpecMul and SpecParse. *)
(* Each drives its own group of variables and leaves the others fixed.     *)
(* Buffer, the word kernels, the digit parsers and                         *)
(* IBig::from_sign_magnitude are not among the source files; they are      *)
(* modelled from the specification text (sections 3, 4.2, 4.3, 4.6-4.9).   *)
(***************************************************************************)
EXTENDS Integers, Sequences, FiniteSets, TLC

(* ------------------------------ bounds --------------------------------- *)

\* Width of a Word in the model (the library uses 32 or 64).
WORD_BITS == 1

\* Largest argument of Buffer::allocate in SpecUBig.
MaxAlloc == 4

\* Largest length of the larger factor in SpecMul.
MaxALen == 4

\* Largest CHUNK_LEN tried in SpecMul.
MaxChunkLen == 2

\* Longest input string in SpecParse.
MaxStrLen == 5

(* ------------------------------ words ---------------------------------- *)

Base == 2 ^ WORD_BITS

WordMax == Base - 1

Word == 0 .. WordMax

\* The limb values the inputs are drawn from: the extremes of a Word.
LimbVals == {0, WordMax}

Max(x, y) == IF x >= y THEN x ELSE y

CeilDiv(x, y) == (x + y - 1) \div y

RECURSIVE value(_)
\* The number a limb sequence denotes, lowest limb first.
value(ws) == IF ws = <<>> THEN 0 ELSE Head(ws) + Base * value(Tail(ws))

\* The slice ws[from..], with from counted from 0 as in the source.
SliceFrom(ws, from) == SubSeq(ws, from + 1, Len(ws))

\* The slice ws[..to].
SliceTo(ws, to) == SubSeq(ws, 1, to)

(* ------------------------------ Buffer --------------------------------- *)

\* slack of resizing_clone_from's reuse band.
Slack == 1

\* Buffer::allocate(n): an empty buffer of capacity n + ceil(n/8) + 2.
allocate(num_words) ==
    [words |-> <<>>, cap |-> num_words + CeilDiv(num_words, 8) + 2]

\* compact-bound(len) = len + max(2, ceil(len/8)).
compact_bound(len) == len + Max(2, CeilDiv(len, 8))

\* Buffer::shrink: reallocate to the compact bound when the capacity exceeds it.
shrink(buffer) ==
    IF buffer.cap > compact_bound(Len(buffer.words))
    THEN [buffer EXCEPT !.cap = compact_bound(Len(buffer.words))]
    ELSE buffer

\* Buffer::push, which needs room.
push(buffer, w) == [buffer EXCEPT !.words = Append(buffer.words, w)]

\* Buffer::pop.
pop(buffer) ==
    [buffer EXCEPT !.words = SubSeq(buffer.words, 1, Len(buffer.words) - 1)]

\* Buffer::clone: a deep copy in a fresh allocation.
buffer_clone(buffer) ==
    [words |-> buffer.words, cap |-> allocate(Len(buffer.words)).cap]

\* Buffer::resizing_clone_from: reuse the allocation inside the band.
resizing_clone_from(buffer, source) ==
    IF /\ buffer.cap >= compact_bound(Len(source.words)) - Slack
       /\ buffer.cap <= compact_bound(Len(source.words)) + Slack
    THEN [words |-> source.words, cap |-> buffer.cap]
    ELSE buffer_clone(source)

(* ------------------------------- UBig ---------------------------------- *)

Small(w) == [tag |-> "Small", word |-> w, words |-> <<>>, cap |-> 1]

Large(buffer) ==
    [tag |-> "Large", word |-> 0, words |-> buffer.words, cap |-> buffer.cap]

\* The buffer a Large value owns.
BufferOf(u) == [words |-> u.words, cap |-> u.cap]

from_word(word) == Small(word)

\* UBig::capacity.
capacity(u) == IF u.tag = "Small" THEN 1 ELSE u.cap

\* UBig::is_zero.
is_zero(u) == u.tag = "Small" /\ u.word = 0

\* UBig::clone.
clone(u) ==
    IF u.tag = "Small" THEN Small(u.word) ELSE Large(buffer_clone(BufferOf(u)))

\* A clone_from that never reuses the destination's buffer.
clone_from_fresh(self, source) == clone(source)

\* UBig::clone_from: the value self holds afterwards.
clone_from(self, source) ==
    IF self.tag = "Large" /\ source.tag = "Large"
    THEN Large(resizing_clone_from(BufferOf(self), BufferOf(source)))
    ELSE clone(source)

RECURSIVE pop_zeros(_)
\* while let Some(0) = buffer.last() { buffer.pop(); }
pop_zeros(buffer) ==
    IF buffer.words /= <<>> /\ buffer.words[Len(buffer.words)] = 0
    THEN pop_zeros(pop(buffer))
    ELSE buffer

\* The match on buffer.len() at the end of From<Buffer>.
ubig_of_trimmed(buffer) ==
    CASE Len(buffer.words) = 0 -> from_word(0)
      [] Len(buffer.words) = 1 -> from_word(buffer.words[1])
      [] OTHER -> Large(shrink(buffer))

\* A From<Buffer> that skips the loop popping the zero limbs.
ubig_from_buffer_no_pop(buffer) == ubig_of_trimmed(buffer)

\* impl From<Buffer> for UBig.
ubig_from_buffer(buffer) == ubig_of_trimmed(pop_zeros(buffer))

\* The number a UBig denotes.
ubig_value(u) == IF u.tag = "Small" THEN u.word ELSE value(u.words)

(* --------------------------- word kernels ------------------------------ *)

\* mul_add_carry(a, b, c, d): a*b + c + d as a (low, high) pair of Words.
mul_add_carry(x, y, z, k) ==
    [low |-> (x * y + z + k) % Base, high |-> (x * y + z + k) \div Base]

RECURSIVE add_mul_word_loop(_, _, _, _, _)
\* Position i of the multiply-word kernel's inner loop, and the ones after it.
add_mul_word_loop(cs, m, as, i, k) ==
    IF i > Len(as)
    THEN [c |-> cs, carry |-> k]
    ELSE LET r == mul_add_carry(m, as[i], cs[i], k)
         IN  add_mul_word_loop([cs EXCEPT ![i] = r.low], m, as, i + 1, r.high)

\* add_mul_word_in_place(c, m, a): c[..a.len] += m * a; c beyond a.len is
\* untouched and the final carry is returned as a Word.
add_mul_word_in_place(cs, m, as) == add_mul_word_loop(cs, m, as, 1, 0)

RECURSIVE sub_mul_word_loop(_, _, _, _, _)
\* Position i of the subtracting kernel's inner loop, and the ones after it.
sub_mul_word_loop(cs, m, as, i, k) ==
    IF i > Len(as)
    THEN [c |-> cs, carry |-> k]
    ELSE LET t == cs[i] - m * as[i] - k
         IN  sub_mul_word_loop([cs EXCEPT ![i] = t % Base], m, as, i + 1,
                               ((t % Base) - t) \div Base)

\* sub_mul_word_in_place(c, m, a): c[..a.len] -= m * a, returning the borrow.
sub_mul_word_in_place(cs, m, as) == sub_mul_word_loop(cs, m, as, 1, 0)

RECURSIVE add_signed_word_loop(_, _, _)
\* One slot of add_signed_word_in_place, and the ones after it.
add_signed_word_loop(cs, i, w) ==
    IF w = 0 \/ i > Len(cs)
    THEN [c |-> cs, carry |-> w]
    ELSE LET t == cs[i] + w
         IN  add_signed_word_loop([cs EXCEPT ![i] = t % Base], i + 1,
                                  (t - (t % Base)) \div Base)

\* add_signed_word_in_place(c, w): propagate the signed carry w through c
\* until a slot absorbs it; what is left at the end of c is returned.
add_signed_word_in_place(cs, w) == add_signed_word_loop(cs, 1, w)

(* -------------------------- simple multiply ---------------------------- *)

RECURSIVE add_mul_chunk_loop(_, _, _, _, _)
\* for (i, m) in b.iter().enumerate() { carry += add_mul_word_in_place(&mut c[i..], *m, a) }
add_mul_chunk_loop(cs, as, bs, i, k) ==
    IF i >= Len(bs)
    THEN [c |-> cs, carry |-> k]
    ELSE LET r == add_mul_word_in_place(SliceFrom(cs, i), bs[i + 1], as)
         IN  add_mul_chunk_loop(SliceTo(cs, i) \o r.c, as, bs, i + 1, k + r.carry)

\* add_mul_chunk: the limbs of c afterwards and the sum of the carries.
add_mul_chunk(cs, as, bs) == add_mul_chunk_loop(cs, as, bs, 0, 0)

RECURSIVE sub_mul_chunk_loop(_, _, _, _, _)
\* for (i, m) in b.iter().enumerate() { borrow += sub_mul_word_in_place(&mut c[i..], *m, a) }
sub_mul_chunk_loop(cs, as, bs, i, k) ==
    IF i >= Len(bs)
    THEN [c |-> cs, carry |-> k]
    ELSE LET r == sub_mul_word_in_place(SliceFrom(cs, i), bs[i + 1], as)
         IN  sub_mul_chunk_loop(SliceTo(cs, i) \o r.c, as, bs, i + 1, k + r.carry)

\* sub_mul_chunk: the limbs of c afterwards and the sum of the borrows.
sub_mul_chunk(cs, as, bs) == sub_mul_chunk_loop(cs, as, bs, 0, 0)

\* A debug build stops at an overflowing += on the Word accumulator, or at
\* debug_assert!(carry <= 1): either way exactly when the sum exceeds 1.
chunk_panics(debug, total) == debug /\ total > 1

\* carry != 0, on the accumulator as a release build holds it (a Word, wrapping).
chunk_flag(total) == IF total % Base /= 0 THEN 1 ELSE 0

\* add_signed_mul_chunk: c afterwards, the signed carry returned, the sum of
\* the kernel's carries (or borrows), and whether a debug build stops in it.
add_signed_mul_chunk(cs, sg, as, bs, debug) ==
    LET r == IF sg = "Positive" THEN add_mul_chunk(cs, as, bs)
                                ELSE sub_mul_chunk(cs, as, bs)
    IN  [c |-> r.c,
         carry |-> IF sg = "Positive" THEN chunk_flag(r.carry)
                                      ELSE 0 - chunk_flag(r.carry),
         total |-> r.carry,
         panic |-> chunk_panics(debug, r.carry)]

(* ------------------------------ parser --------------------------------- *)

\* The bytes the input strings are made of.
Chars == {"+", "-", "0", "1", "b", "o", "x", "f"}

\* The radices tried: every one is valid (2 to 36), as check_radix_valid demands.
Radixes == {2, 8, 10, 16, 36}

\* The digit a byte stands for: '0'-'9' are 0-9, letters are 10-35.
DigitTable ==
    ("0" :> 0) @@ ("1" :> 1) @@ ("b" :> 11) @@ ("f" :> 15) @@ ("o" :> 24) @@ ("x" :> 33)

\* Whether the byte is a digit of the radix.
is_digit(ch, radix) == ch \in DOMAIN DigitTable /\ DigitTable[ch] < radix

\* Digit::is_power_of_two.
is_power_of_two(radix) == radix \in {2, 4, 8, 16, 32}

\* The bits one digit of a power-of-two radix carries.
bits_per_digit(radix) == CHOOSE k \in 1 .. 5 : 2 ^ k = radix

Ok(sg, mag) == [kind |-> "Ok", err |-> "", sign |-> sg, mag |-> mag]

Err(e) == [kind |-> "Err", err |-> e, sign |-> "Positive", mag |-> Small(0)]

\* An abort: an index out of bounds.
Panic == [kind |-> "Panic", err |-> "", sign |-> "Positive", mag |-> Small(0)]

NoResult == [kind |-> "None", err |-> "", sign |-> "Positive", mag |-> Small(0)]

RECURSIVE digits_value(_, _, _)
\* acc = acc * radix + digit, over the digits in input order.
digits_value(digits, radix, acc) ==
    IF digits = <<>> THEN acc
    ELSE digits_value(Tail(digits), radix, acc * radix + DigitTable[Head(digits)])

RECURSIVE to_limbs(_)
\* The limbs of a number, lowest first, none for zero.
to_limbs(v) == IF v = 0 THEN <<>> ELSE <<v % Base>> \o to_limbs(v \div Base)

\* ws followed by zero limbs up to length len.
pad(ws, len) == ws \o [i \in 1 .. (len - Len(ws)) |-> 0]

\* Whether every byte is a digit of the radix.
all_digits(digits, radix) == \A i \in 1 .. Len(digits) : is_digit(digits[i], radix)

\* power_two::parse: the digits packed into ceil(bits / WORD_BITS) limbs and
\* handed to UBig's normalizing constructor.
power_two_parse(digits, radix) ==
    IF ~all_digits(digits, radix) THEN Err("InvalidDigit")
    ELSE LET len == CeilDiv(bits_per_digit(radix) * Len(digits), WORD_BITS)
         IN  Ok("Positive",
                ubig_from_buffer([words |-> pad(to_limbs(digits_value(digits, radix, 0)), len),
                                  cap |-> allocate(len).cap]))

\* non_power_two::parse: the digits accumulated into a buffer that is
\* handed to UBig's normalizing constructor.
non_power_two_parse(digits, radix) ==
    IF ~all_digits(digits, radix) THEN Err("InvalidDigit")
    ELSE LET ws == to_limbs(digits_value(digits, radix, 0))
         IN  Ok("Positive",
                ubig_from_buffer([words |-> ws, cap |-> allocate(Len(ws) + 1).cap]))

\* IBig::from_sign_magnitude: zero is Positive.
from_sign_magnitude(sg, mag) ==
    IF is_zero(mag) THEN Ok("Positive", mag) ELSE Ok(sg, mag)

\* str::strip_prefix: whether src starts with pre, and what follows it.
strip_prefix(str, pre) ==
    IF Len(str) >= Len(pre) /\ SubSeq(str, 1, Len(pre)) = pre
    THEN [some |-> TRUE, rest |-> SliceFrom(str, Len(pre))]
    ELSE [some |-> FALSE, rest |-> str]

RECURSIVE strip_zeros(_)
\* while let Some(src2) = src.strip_prefix('0') { src = src2; }
strip_zeros(str) ==
    IF strip_prefix(str, <<"0">>).some
    THEN strip_zeros(strip_prefix(str, <<"0">>).rest)
    ELSE str

\* UBig::from_str_radix_no_sign.
from_str_radix_no_sign(str, radix) ==
    IF str = <<>> THEN Err("NoDigits")
    ELSE IF is_power_of_two(radix)
         THEN power_two_parse(strip_zeros(str), radix)
         ELSE non_power_two_parse(strip_zeros(str), radix)

RECURSIVE skip_zeros(_, _)
\* while strbytes[numindex] == b'0' { numindex += 1; }: the index the loop
\* stops at, or -1 when it reads past the end.
skip_zeros(strbytes, numindex) ==
    IF numindex >= Len(strbytes) THEN -1
    ELSE IF strbytes[numindex + 1] = "0" THEN skip_zeros(strbytes, numindex + 1)
    ELSE numindex

\* UBig::from_bytes_radix_no_sign.
from_bytes_radix_no_sign(strbytes, numindex, radix) ==
    IF strbytes = <<>> THEN Err("NoDigits")
    ELSE IF skip_zeros(strbytes, numindex) < 0 THEN Panic
    ELSE IF is_power_of_two(radix)
         THEN power_two_parse(SliceFrom(strbytes, skip_zeros(strbytes, numindex)), radix)
         ELSE non_power_two_parse(SliceFrom(strbytes, skip_zeros(strbytes, numindex)), radix)

\* UBig::from_str_radix.
UBig_from_str_radix(str, radix) ==
    from_str_radix_no_sign(strip_prefix(str, <<"+">>).rest, radix)

\* A prefix dispatch that reads "0o" as hexadecimal.
from_str_with_radix_prefix_no_sign_octal_as_hex(str) ==
    IF strip_prefix(str, <<"0", "b">>).some
    THEN from_str_radix_no_sign(strip_prefix(str, <<"0", "b">>).rest, 2)
    ELSE IF strip_prefix(str, <<"0", "o">>).some
    THEN from_str_radix_no_sign(strip_prefix(str, <<"0", "o">>).rest, 16)
    ELSE IF strip_prefix(str, <<"0", "x">>).some
    THEN from_str_radix_no_sign(strip_prefix(str, <<"0", "x">>).rest, 16)
    ELSE from_str_radix_no_sign(str, 10)

\* UBig::from_str_with_radix_prefix_no_sign.
from_str_with_radix_prefix_no_sign(str) ==
    IF strip_prefix(str, <<"0", "b">>).some
    THEN from_str_radix_no_sign(strip_prefix(str, <<"0", "b">>).rest, 2)
    ELSE IF strip_prefix(str, <<"0", "o">>).some
    THEN from_str_radix_no_sign(strip_prefix(str, <<"0", "o">>).rest, 8)
    ELSE IF strip_prefix(str, <<"0", "x">>).some
    THEN from_str_radix_no_sign(strip_prefix(str, <<"0", "x">>).rest, 16)
    ELSE from_str_radix_no_sign(str, 10)

\* UBig::from_str_with_radix_prefix.
UBig_from_str_with_radix_prefix(str) ==
    from_str_with_radix_prefix_no_sign(strip_prefix(str, <<"+">>).rest)

\* let mag = ...?; Ok(IBig::from_sign_magnitude(sign, mag))
with_sign(sg, res) ==
    IF res.kind = "Ok" THEN from_sign_magnitude(sg, res.mag) ELSE res

\* IBig::from_str_radix: strbytes[0] is read before anything else.
IBig_from_str_radix(str, radix) ==
    IF Len(str) = 0 THEN Panic
    ELSE with_sign(IF str[1] = "-" THEN "Negative" ELSE "Positive",
                   from_bytes_radix_no_sign(
                       str, IF str[1] \in {"-", "+"} THEN 1 ELSE 0, radix))

\* IBig::from_str_with_radix_prefix.
IBig_from_str_with_radix_prefix(str) ==
    IF strip_prefix(str, <<"-">>).some
    THEN with_sign("Negative",
                   from_str_with_radix_prefix_no_sign(strip_prefix(str, <<"-">>).rest))
    ELSE with_sign("Positive",
                   from_str_with_radix_prefix_no_sign(strip_prefix(str, <<"+">>).rest))

(* ------------------------------ state ---------------------------------- *)

VARIABLES
    buf,          \* SpecUBig: the Buffer under construction
    buf_live,     \* whether a Buffer is under construction
    buf_n,        \* the argument of the allocate that made buf
    d,            \* a UBig: the destination of clone_from
    s,            \* a UBig: the source of clone_from
    upc,          \* "build_s", "build_d" or "ops"
    uop,          \* the last UBig operation and the state it started from
    CHUNK_LEN,    \* SpecMul: the chunk length (1024 in the source), any from 1 up
    debug_build,  \* whether debug assertions and overflow checks are compiled in
    sign,         \* "Positive" or "Negative"
    a,            \* the slice a, as the loop has advanced it
    b,            \* the slice b
    c,            \* the slice c, as the loop has advanced it
    c_low,        \* the limbs of c the loop has advanced past
    carry_n,      \* the carry at c[n]
    carry,        \* the carry add_signed_mul returns
    chunk_total,  \* the sum of the kernel's carries in the last chunk
    iters,        \* the iterations of the chunking loop so far
    a0,           \* a at the call
    c0,           \* c at the call
    mpc,          \* "loop", "done" or "panic"
    src,          \* SpecParse: the input string
    entry,        \* the entry point called
    radix,        \* the radix passed to it (0 for the with-prefix entries)
    result        \* what the entry point returned

uvars == <<buf, buf_live, buf_n, d, s, upc, uop>>

mvars == <<CHUNK_LEN, debug_build, sign, a, b, c, c_low, carry_n, carry,
           chunk_total, iters, a0, c0, mpc>>

pvars == <<src, entry, radix, result>>

vars == <<uvars, mvars, pvars>>

NoBuffer == [words |-> <<>>, cap |-> 0]

NoOp == [name |-> "none", n |-> 0, buffer |-> NoBuffer,
         d |-> Small(0), s |-> Small(0)]

Op(name) == [name |-> name, n |-> buf_n, buffer |-> buf, d |-> d, s |-> s]

\* The UBig variables while another specification runs.
IdleUBig ==
    /\ buf = NoBuffer
    /\ buf_live = FALSE
    /\ buf_n = 0
    /\ d = Small(0)
    /\ s = Small(0)
    /\ upc = "idle"
    /\ uop = NoOp

\* The multiply variables while another specification runs.
IdleMul ==
    /\ CHUNK_LEN = 1
    /\ debug_build = FALSE
    /\ sign = "Positive"
    /\ a = <<>>
    /\ b = <<>>
    /\ c = <<>>
    /\ c_low = <<>>
    /\ carry_n = 0
    /\ carry = 0
    /\ chunk_total = 0
    /\ iters = 0
    /\ a0 = <<>>
    /\ c0 = <<>>
    /\ mpc = "idle"

\* The parser variables while another specification runs.
IdleParse ==
    /\ src = <<>>
    /\ entry = "none"
    /\ radix = 0
    /\ result = NoResult

(* ------------------------- SpecUBig: actions --------------------------- *)

InitUBig ==
    /\ buf = NoBuffer
    /\ buf_live = FALSE
    /\ buf_n = 0
    /\ d = Small(0)
    /\ s = Small(0)
    /\ upc = "build_s"
    /\ uop = NoOp
    /\ IdleMul
    /\ IdleParse

\* let mut buf = Buffer::allocate(n);
Allocate(num_words) ==
    /\ upc \in {"build_s", "build_d"}
    /\ ~buf_live
    /\ buf' = allocate(num_words)
    /\ buf_live' = TRUE
    /\ buf_n' = num_words
    /\ uop' = Op("allocate")
    /\ UNCHANGED <<d, s, upc, mvars, pvars>>

\* buf.push(w);
Push(w) ==
    /\ buf_live
    /\ Len(buf.words) < buf.cap
    /\ buf' = push(buf, w)
    /\ uop' = Op("push")
    /\ UNCHANGED <<buf_live, buf_n, d, s, upc, mvars, pvars>>

\* let s: UBig = buf.into();
IntoS ==
    /\ upc = "build_s"
    /\ buf_live
    /\ s' = ubig_from_buffer(buf)
    /\ buf' = NoBuffer
    /\ buf_live' = FALSE
    /\ upc' = "build_d"
    /\ uop' = Op("into_s")
    /\ UNCHANGED <<buf_n, d, mvars, pvars>>

\* let d: UBig = buf.into();
IntoD ==
    /\ upc = "build_d"
    /\ buf_live
    /\ d' = ubig_from_buffer(buf)
    /\ buf' = NoBuffer
    /\ buf_live' = FALSE
    /\ upc' = "ops"
    /\ uop' = Op("into_d")
    /\ UNCHANGED <<buf_n, s, mvars, pvars>>

\* let s = UBig::from_word(w);
FromWordS(w) ==
    /\ upc = "build_s"
    /\ ~buf_live
    /\ s' = from_word(w)
    /\ upc' = "build_d"
    /\ uop' = Op("from_word_s")
    /\ UNCHANGED <<buf, buf_live, buf_n, d, mvars, pvars>>

\* let d = UBig::from_word(w);
FromWordD(w) ==
    /\ upc = "build_d"
    /\ ~buf_live
    /\ d' = from_word(w)
    /\ upc' = "ops"
    /\ uop' = Op("from_word_d")
    /\ UNCHANGED <<buf, buf_live, buf_n, s, mvars, pvars>>

\* d = s.clone();
CloneIntoD ==
    /\ upc = "ops"
    /\ d' = clone(s)
    /\ uop' = Op("clone_d")
    /\ UNCHANGED <<buf, buf_live, buf_n, s, upc, mvars, pvars>>

\* s = d.clone();
CloneIntoS ==
    /\ upc = "ops"
    /\ s' = clone(d)
    /\ uop' = Op("clone_s")
    /\ UNCHANGED <<buf, buf_live, buf_n, d, upc, mvars, pvars>>

\* d.clone_from(&s);
CloneFromD ==
    /\ upc = "ops"
    /\ d' = clone_from(d, s)
    /\ uop' = Op("clone_from_d")
    /\ UNCHANGED <<buf, buf_live, buf_n, s, upc, mvars, pvars>>

\* s.clone_from(&d);
CloneFromS ==
    /\ upc = "ops"
    /\ s' = clone_from(s, d)
    /\ uop' = Op("clone_from_s")
    /\ UNCHANGED <<buf, buf_live, buf_n, d, upc, mvars, pvars>>

NextUBig ==
    \/ \E num_words \in 0 .. MaxAlloc : Allocate(num_words)
    \/ \E w \in LimbVals : Push(w)
    \/ IntoS
    \/ IntoD
    \/ \E w \in Word : FromWordS(w)
    \/ \E w \in Word : FromWordD(w)
    \/ CloneIntoD
    \/ CloneIntoS
    \/ CloneFromD
    \/ CloneFromS

SpecUBig == InitUBig /\ [][NextUBig]_vars

(* -------------------------- SpecMul: actions --------------------------- *)

\* The sequences of length len over the limb values.
Limbs(len) == [1 .. len -> LimbVals]

\* add_signed_mul is called with a.len >= b.len, c.len = a.len + b.len and
\* b.len <= MAX_SMALLER_LEN = CHUNK_LEN.
InitMul ==
    /\ CHUNK_LEN \in 1 .. MaxChunkLen
    /\ debug_build \in BOOLEAN
    /\ sign \in {"Positive", "Negative"}
    /\ \E lb \in 0 .. MaxChunkLen : \E la \in 0 .. MaxALen :
          /\ lb <= CHUNK_LEN
          /\ lb <= la
          /\ b \in Limbs(lb)
          /\ a \in Limbs(la)
          /\ c \in Limbs(la + lb)
    /\ c_low = <<>>
    /\ carry_n = 0
    /\ carry = 0
    /\ chunk_total = 0
    /\ iters = 0
    /\ a0 = a
    /\ c0 = c
    /\ mpc = "loop"
    /\ IdleUBig
    /\ IdleParse

\* c[n..CHUNK_LEN + n] after the carry at c[n] went through it, and the rest of c.
propagated(cs, n, len, w) ==
    SliceTo(cs, n)
        \o add_signed_word_in_place(SubSeq(cs, n + 1, len), w).c
        \o SliceFrom(cs, len)

\* One iteration of while a.len() >= 2 * CHUNK_LEN.
MulLoop ==
    /\ mpc = "loop"
    /\ Len(a) >= 2 * CHUNK_LEN
    /\ LET n == Len(b)
           w == add_signed_word_in_place(SubSeq(c, n + 1, CHUNK_LEN + n), carry_n).carry
           c1 == propagated(c, n, CHUNK_LEN + n, carry_n)
           r == add_signed_mul_chunk(SliceTo(c1, CHUNK_LEN + n), sign,
                                     SliceTo(a, CHUNK_LEN), b, debug_build)
           c2 == r.c \o SliceFrom(c1, CHUNK_LEN + n)
       IN  /\ chunk_total' = r.total
           /\ carry_n' = w + r.carry
           /\ a' = SliceFrom(a, CHUNK_LEN)
           /\ c' = SliceFrom(c2, CHUNK_LEN)
           /\ c_low' = c_low \o SliceTo(c2, CHUNK_LEN)
           /\ mpc' = IF r.panic THEN "panic" ELSE "loop"
    /\ iters' = iters + 1
    /\ UNCHANGED <<CHUNK_LEN, debug_build, sign, b, carry, a0, c0, uvars, pvars>>

\* The final chunk and the return.
MulFinal ==
    /\ mpc = "loop"
    /\ Len(a) < 2 * CHUNK_LEN
    /\ LET n == Len(b)
           w == add_signed_word_in_place(SliceFrom(c, n), carry_n).carry
           c1 == propagated(c, n, Len(c), carry_n)
           r == add_signed_mul_chunk(c1, sign, a, b, debug_build)
       IN  /\ chunk_total' = r.total
           /\ carry' = w + r.carry
           /\ c' = r.c
           /\ mpc' = IF r.panic THEN "panic" ELSE "done"
    /\ UNCHANGED <<CHUNK_LEN, debug_build, sign, a, b, c_low, carry_n, iters,
                   a0, c0, uvars, pvars>>

NextMul ==
    \/ MulLoop
    \/ MulFinal

SpecMul == InitMul /\ [][NextMul]_vars

(* ------------------------- SpecParse: actions -------------------------- *)

\* The strings of at most MaxStrLen bytes.
Strings == UNION {[1 .. len -> Chars] : len \in 0 .. MaxStrLen}

InitParse ==
    /\ src \in Strings
    /\ entry = "none"
    /\ radix = 0
    /\ result = NoResult
    /\ IdleUBig
    /\ IdleMul

\* UBig::from_str_radix(src, r)
CallUBigFromStrRadix(r) ==
    /\ entry = "none"
    /\ entry' = "UBig::from_str_radix"
    /\ radix' = r
    /\ result' = UBig_from_str_radix(src, r)
    /\ UNCHANGED <<src, uvars, mvars>>

\* UBig::from_str_with_radix_prefix(src)
CallUBigFromStrWithRadixPrefix ==
    /\ entry = "none"
    /\ entry' = "UBig::from_str_with_radix_prefix"
    /\ radix' = 0
    /\ result' = UBig_from_str_with_radix_prefix(src)
    /\ UNCHANGED <<src, uvars, mvars>>

\* IBig::from_str_radix(src, r)
CallIBigFromStrRadix(r) ==
    /\ entry = "none"
    /\ entry' = "IBig::from_str_radix"
    /\ radix' = r
    /\ result' = IBig_from_str_radix(src, r)
    /\ UNCHANGED <<src, uvars, mvars>>

\* IBig::from_str_with_radix_prefix(src)
CallIBigFromStrWithRadixPrefix ==
    /\ entry = "none"
    /\ entry' = "IBig::from_str_with_radix_prefix"
    /\ radix' = 0
    /\ result' = IBig_from_str_with_radix_prefix(src)
    /\ UNCHANGED <<src, uvars, mvars>>

NextParse ==
    \/ \E r \in Radixes : CallUBigFromStrRadix(r)
    \/ CallUBigFromStrWithRadixPrefix
    \/ \E r \in Radixes : CallIBigFromStrRadix(r)
    \/ CallIBigFromStrWithRadixPrefix

SpecParse == InitParse /\ [][NextParse]_vars

(* ------------------------------ claims --------------------------------- *)

\* A UBig is normalized: Small exactly when its value fits one Word; a Large
\* one has at least two limbs and a non-zero highest limb.
Normalized(u) ==
    /\ (u.tag = "Small") <=> (ubig_value(u) < Base)
    /\ u.tag = "Small" => u.word \in Word /\ u.words = <<>>
    /\ u.tag = "Large" => Len(u.words) >= 2 /\ u.words[Len(u.words)] /= 0

\* What From<Buffer> must have made of the buffer: the same number, and
\* Small(0) for zero.
ConvertedFrom(u, buffer) ==
    /\ ubig_value(u) = value(buffer.words)
    /\ value(buffer.words) = 0 => u = Small(0)

\* C1: every UBig reached through from_word, From<Buffer>, clone and
\* clone_from is normalized, and From<Buffer> keeps the number the buffer
\* holds, giving Small(0) when that number is zero, whatever the limbs
\* (all zero, trailing zeros, none at all).
ReprInvariant ==
    /\ Normalized(d)
    /\ Normalized(s)
    /\ uop.name = "into_s" => ConvertedFrom(s, uop.buffer)
    /\ uop.name = "into_d" => ConvertedFrom(d, uop.buffer)

\* C1's case: a buffer with zero limbs on top was converted to a Large value
\* while the other value is the Small(0) an all-zero buffer gave.
ReprInvariantWitness ==
    /\ uop.name = "into_d"
    /\ Len(uop.buffer.words) >= 3
    /\ uop.buffer.words[Len(uop.buffer.words)] = 0
    /\ d.tag = "Large"
    /\ Len(d.words) < Len(uop.buffer.words)
    /\ s = Small(0)

\* The normalized length of the buffer the last conversion consumed.
NormalizedLen == Len(pop_zeros(uop.buffer).words)

\* The UBig the last conversion produced.
Converted == IF uop.name = "into_s" THEN s ELSE d

\* C6: a buffer from allocate(n) whose normalized length L is at least 2 and
\* lies between n - 2 and n + 2 keeps its capacity when converted to UBig;
\* one holding far fewer limbs than n is reallocated to the compact bound.
ShrinkBand ==
    uop.name \in {"into_s", "into_d"} /\ NormalizedLen >= 2 =>
        /\ (uop.n - 2 <= NormalizedLen /\ NormalizedLen <= uop.n + 2)
               => capacity(Converted) = allocate(uop.n).cap
        /\ NormalizedLen < uop.n - 2
               => capacity(Converted) = compact_bound(NormalizedLen)

\* Whether a destination capacity lies in the reuse band of a source of length len.
InBand(cap, len) ==
    cap >= compact_bound(len) - Slack /\ cap <= compact_bound(len) + Slack

\* What dst.clone_from(&source) must leave: source untouched, dst equal to
\* it, and dst's capacity kept inside the band, allocate(L)'s outside it.
ClonedFrom(dst_before, source_before, dst_after, source_after) ==
    /\ source_after = source_before
    /\ dst_after.tag = source_before.tag
    /\ dst_after.word = source_before.word
    /\ dst_after.words = source_before.words
    /\ IF dst_before.tag = "Large" /\ source_before.tag = "Large"
       THEN IF InBand(dst_before.cap, Len(source_before.words))
            THEN dst_after.cap = dst_before.cap
            ELSE dst_after.cap = allocate(Len(source_before.words)).cap
       ELSE capacity(dst_after) =
                IF source_before.tag = "Small" THEN 1
                ELSE allocate(Len(source_before.words)).cap

\* C7: after d.clone_from(&s) d equals s and s is unchanged; with both Large,
\* a capacity of d inside [compact(L) - slack, compact(L) + slack] is kept
\* and one outside it becomes allocate(L)'s; with either side Small, d is a
\* fresh clone of s.
CloneFromReuse ==
    /\ uop.name = "clone_from_d" => ClonedFrom(uop.d, uop.s, d, s)
    /\ uop.name = "clone_from_s" => ClonedFrom(uop.s, uop.d, s, d)

\* C7's case: a Large destination inside the band took other limbs from a
\* Large source and kept a capacity that a fresh allocation would not have.
CloneFromReuseWitness ==
    /\ uop.name = "clone_from_d"
    /\ uop.d.tag = "Large"
    /\ uop.s.tag = "Large"
    /\ uop.d.words /= uop.s.words
    /\ InBand(uop.d.cap, Len(uop.s.words))
    /\ d.cap = uop.d.cap
    /\ d.cap /= allocate(Len(uop.s.words)).cap

\* +1 or -1 for the sign.
SignNum == IF sign = "Positive" THEN 1 ELSE 0 - 1

\* C2: when add_signed_mul(c, s, a, b) has returned carry k,
\* value(c') + k * 2^(WORD_BITS * (A + B)) = value(c) + s * value(a) * value(b).
KernelCorrect ==
    mpc = "done" =>
        value(c_low \o c) + carry * Base ^ (Len(a0) + Len(b))
            = value(c0) + SignNum * value(a0) * value(b)

\* C9: the carries (borrows) the multiply-word kernel returns over the limbs
\* of b add up to at most 1 in every chunk.
ChunkCarryBound == chunk_total <= 1

\* C10: in add_signed_mul c.len = a.len + b.len at every iteration, every
\* slice range is in bounds, carry_n stays in {-1, 0, 1}, b.len <= a.len <
\* 2 * CHUNK_LEN on loop exit, and the carry returned is 0 or +1 for Positive
\* and -1 or 0 for Negative.
SignedCarryRange ==
    /\ mpc \in {"loop", "done"} => Len(c) = Len(a) + Len(b)
    /\ mpc = "loop" /\ Len(a) >= 2 * CHUNK_LEN =>
           CHUNK_LEN + Len(b) <= Len(c) /\ CHUNK_LEN <= Len(a)
    /\ mpc = "loop" => Len(b) <= Len(c)
    /\ carry_n \in {0 - 1, 0, 1}
    /\ mpc = "done" => Len(b) <= Len(a) /\ Len(a) < 2 * CHUNK_LEN
    /\ mpc = "done" =>
           IF sign = "Positive" THEN carry \in {0, 1} ELSE carry \in {0 - 1, 0}

\* The sign bytes an entry point consumes.
SignsOf(e) ==
    IF e \in {"UBig::from_str_radix", "UBig::from_str_with_radix_prefix"}
    THEN {<<>>, <<"+">>}
    ELSE {<<>>, <<"+">>, <<"-">>}

\* The radix prefixes an entry point consumes.
PrefixesOf(e) ==
    IF e \in {"UBig::from_str_with_radix_prefix", "IBig::from_str_with_radix_prefix"}
    THEN {<<>>, <<"0", "b">>, <<"0", "o">>, <<"0", "x">>}
    ELSE {<<>>}

\* C3: an input with no digit after the optional sign and the optional radix
\* prefix gives the error NoDigits at every entry point.
NoDigitsOnEmpty ==
    entry /= "none" /\ src \in {sg \o pre : sg \in SignsOf(entry), pre \in PrefixesOf(entry)}
        => result = Err("NoDigits")

\* Whether str is one or more '0' bytes and nothing else.
AllZeros(str) == str /= <<>> /\ \A i \in 1 .. Len(str) : str[i] = "0"

\* C4: an optional sign followed by '0' bytes only parses to zero: Small(0),
\* with sign Positive, at every entry point.
ZerosParseToZero ==
    entry /= "none"
      /\ (\E sg \in SignsOf(entry) :
             Len(src) > Len(sg) /\ SliceTo(src, Len(sg)) = sg
                                /\ AllZeros(SliceFrom(src, Len(sg))))
        => result = Ok("Positive", Small(0))

\* The number a result denotes.
SignedValue(res) ==
    IF res.sign = "Negative" THEN 0 - ubig_value(res.mag) ELSE ubig_value(res.mag)

\* Whether the result is the number v.
IsNumber(res, v) == res.kind = "Ok" /\ SignedValue(res) = v

\* src without its first byte.
Rest == SliceFrom(src, 1)

\* C5: for a non-empty string s of digits of the radix, IBig parses "-" s to
\* minus the number s denotes and both IBig and UBig parse "+" s to that
\* number; a second sign byte is rejected as a digit, and so is a leading
\* '-' by UBig.
SignParse ==
    /\ entry = "IBig::from_str_radix" /\ Len(src) >= 2 /\ src[1] = "-"
         /\ all_digits(Rest, radix)
           => IsNumber(result, 0 - digits_value(Rest, radix, 0))
    /\ entry \in {"IBig::from_str_radix", "UBig::from_str_radix"}
         /\ Len(src) >= 2 /\ src[1] = "+" /\ all_digits(Rest, radix)
           => IsNumber(result, digits_value(Rest, radix, 0))
    /\ entry = "IBig::from_str_radix" /\ Len(src) >= 2
         /\ src[1] \in {"+", "-"} /\ src[2] \in {"+", "-"}
           => result = Err("InvalidDigit")
    /\ entry = "UBig::from_str_radix" /\ Len(src) >= 2
         /\ (src[1] = "-" \/ (src[1] = "+" /\ src[2] \in {"+", "-"}))
           => result = Err("InvalidDigit")

\* src after the one sign byte the entry point consumes.
Unsigned ==
    IF src /= <<>> /\ <<src[1]>> \in SignsOf(entry) THEN Rest ELSE src

\* The radix the prefix of an unsigned string selects.
SelectedRadix(str) ==
    IF Len(str) >= 2 /\ str[1] = "0" /\ str[2] \in {"b", "o", "x"}
    THEN CASE str[2] = "b" -> 2 [] str[2] = "o" -> 8 [] str[2] = "x" -> 16
    ELSE 10

\* The bytes after the prefix of an unsigned string.
AfterPrefix(str) ==
    IF Len(str) >= 2 /\ str[1] = "0" /\ str[2] \in {"b", "o", "x"}
    THEN SliceFrom(str, 2)
    ELSE str

\* What parsing digits in the radix gives, with the sign put on a number
\* other than zero.
ParsedIn(digits, r, negative) ==
    IF digits = <<>> THEN Err("NoDigits")
    ELSE IF ~all_digits(digits, r) THEN Err("InvalidDigit")
    ELSE IF negative /\ digits_value(digits, r, 0) /= 0
         THEN Ok("Negative", ubig_from_buffer(
                  [words |-> to_limbs(digits_value(digits, r, 0)), cap |-> 0]))
         ELSE Ok("Positive", ubig_from_buffer(
                  [words |-> to_limbs(digits_value(digits, r, 0)), cap |-> 0]))

\* Two results that agree in everything but the capacity of the magnitude.
SameResult(x, y) ==
    /\ x.kind = y.kind
    /\ x.err = y.err
    /\ x.sign = y.sign
    /\ x.mag.tag = y.mag.tag
    /\ x.mag.word = y.mag.word
    /\ x.mag.words = y.mag.words

====
